---- MODULE Spec2Model ----
(***************************************************************************)
(* Model of the discussion collector of src/etl_scripts/reddit_etl.py:     *)
(* main runs seven collection passes over one subreddit, all sharing the   *)
(* set processed_ids, concatenates their outputs, and hands the result to  *)
(* process_dataframe and transform_data.                                   *)
(*                                                                         *)
(* Text is a sequence of one-character strings, so that strip(), len()     *)
(* and lower() are computed character by character.  Timestamps are epoch  *)
(* seconds.  The remote listings are not part of the program: every        *)
(* iteration of a listing may yield any submission of the universe         *)
(* Submissions, end, or raise.                                             *)
(***************************************************************************)
EXTENDS Integers, Sequences, FiniteSets, TLC

VARIABLES
    pc,               \* where main / the running strategy stands
    strat,            \* position in StrategyOrder of the strategy being run
    listing,          \* number of the listing (window, time filter, term, flair) in progress
    start_timestamp,  \* collect_monthly_paginated: start of the current window
    end_timestamp,    \* collect_monthly_paginated: "now" taken when it started
    processed_ids,    \* the shared set of ids (main, line 93)
    out,              \* the list `data` each strategy returns, by strategy name
    submission,       \* id of the submission the loop body last received
    skipped_old,      \* the listing in progress has skipped a submission older than the cutoff
    fetched,          \* number of submissions the remote has yielded so far
    raised,           \* number of exceptions raised inside strategies so far
    windows,          \* the (start, month_end) pairs collect_monthly_paginated has used
    started,          \* the strategies main has called, in call order
    returned,         \* the strategies that have returned to main, in order
    sawOld,           \* 'new' sorting met a submission older than the cutoff
    harvests,         \* number of calls of process_comments
    lastHarvest,      \* what the last call of process_comments returned, and for which id
    seen_again,       \* number of submissions skipped because their id was in processed_ids
    all_data,         \* main, line 133
    df,               \* the raw snapshot process_dataframe returns
    df_transformed,   \* the normalized output transform_data returns
    raw_file,         \* raw_data/reddit.csv as save_raw_data wrote it
    processed_file,   \* processed_data/reddit.csv as load_data wrote it
    config,           \* config/config.yaml and the environment: "ok", "no_file", "no_env"
    apps,             \* run_pipeline.main: config['apps']
    b_pc,             \* where run_pipeline.main, process_app or the adapter it runs stands
    app_i,            \* position in apps of the app_config of the current iteration
    results,          \* run_pipeline.main: results
    invoked,          \* positions in apps process_app has been called with, in call order
    store,            \* the data directory: what each file of each target directory holds
    remote_log,       \* remote calls issued so far: <<position of the app, platform>>
    error_log,        \* exceptions raised so far: where, and the length remote_log had then
    n_rows,           \* reddit_etl.main: rows the strategies collected for the current app
    reddit_open,      \* positions of the apps whose asyncpraw client was created and not closed
    k_pc,             \* where backup_platform_data / process_directory stands
    platform_dir,     \* the platform directory: whether it and its sub-directories exist, their files
    data_type_i,      \* backup_platform_data: position in ["raw_data", "processed_data"]
    pending,          \* process_directory: the files os.walk has still to yield
    dir_processed,    \* process_directory: files_processed
    files_processed,  \* backup_platform_data: files_processed
    attempted,        \* the s3 keys upload_file_to_s3 was called with
    uploaded,         \* the s3 keys whose upload succeeded
    returned_count    \* what backup_platform_data returned: <<>> before it returns

\* The variables of the strategies and of main up to line 133.
strategy_vars == <<strat, listing, start_timestamp, end_timestamp, processed_ids, out,
                   submission, skipped_old, fetched, raised, windows, started, returned,
                   sawOld, harvests, lastHarvest, seen_again, all_data>>

\* The files of one target's data directory.
file_vars == <<raw_file, processed_file>>

\* The variables of run_pipeline.main and of what it calls.
batch_vars == <<config, apps, b_pc, app_i, results, invoked, store, remote_log,
                error_log, n_rows, reddit_open>>

\* The variables of reddit_etl.main.
collector_vars == <<pc, strategy_vars, df, df_transformed, file_vars>>

\* The variables of s3_backup.backup_platform_data and process_directory.
backup_vars == <<k_pc, platform_dir, data_type_i, pending, dir_processed,
                 files_processed, attempted, uploaded, returned_count>>

vars == <<collector_vars, batch_vars, backup_vars>>

-----------------------------------------------------------------------------
(* Bounds of the model *)

MaxFetch == 2      \* submissions the remote yields in one run
MaxRaise == 1      \* exceptions raised inside strategies in one run
MaxDelay == 1      \* seconds between main's and the strategy's datetime.now()
MaxRows == 3       \* rows of a raw snapshot handed to transform_data on its own
NumApps == 2       \* entries of config['apps']
MaxFiles == 2      \* files in one sub-directory of a platform directory

-----------------------------------------------------------------------------
(* Program constants *)

DaySeconds == 24 * 60 * 60
WindowSeconds == 30 * 24 * 60 * 60
CutoffDays == 365
NumSearchTerms == 116
NumFlairs == 12
MinTextLen == 5
SanityMinRows == 10
AppStoreMinRows == 5

time_filters(method) ==
    IF method \in {"top", "controversial"}
    THEN <<"all", "year", "month", "week">>
    ELSE <<"None">>

\* Mutant of StrategyOrder: 'hot' is collected before 'new'.
StrategyOrder_swapped ==
    <<"monthly", "hot", "new", "top", "controversial", "search", "flair">>

StrategyOrder ==
    <<"monthly", "new", "hot", "top", "controversial", "search", "flair">>

Strategies == {"monthly", "new", "hot", "top", "controversial", "search", "flair"}
SortingMethods == {"new", "hot", "top", "controversial"}

-----------------------------------------------------------------------------
(* Text *)

RECURSIVE lstrip(_)
lstrip(s) == IF s # <<>> /\ Head(s) = " " THEN lstrip(Tail(s)) ELSE s

RECURSIVE rstrip(_)
rstrip(s) ==
    IF s # <<>> /\ s[Len(s)] = " " THEN rstrip(SubSeq(s, 1, Len(s) - 1)) ELSE s

strip(s) == rstrip(lstrip(s))

UpperCase ==
    <<"A", "B", "C", "D", "E", "F", "G", "H", "I", "J", "K", "L", "M",
      "N", "O", "P", "Q", "R", "S", "T", "U", "V", "W", "X", "Y", "Z">>
LowerCase ==
    <<"a", "b", "c", "d", "e", "f", "g", "h", "i", "j", "k", "l", "m",
      "n", "o", "p", "q", "r", "s", "t", "u", "v", "w", "x", "y", "z">>

\* Mutant of lower_char: the character is left as it is.
lower_char_identity(c) == c

lower_char(c) ==
    IF \E i \in DOMAIN UpperCase : UpperCase[i] = c
    THEN LowerCase[CHOOSE i \in DOMAIN UpperCase : UpperCase[i] = c]
    ELSE c

lower(s) == [i \in DOMAIN s |-> lower_char(s[i])]

T_LateOrder == <<"L", "a", "t", "e", " ", "o", "r", "d", "e", "r">>
T_DriverNeverShowed ==
    <<"d", "r", "i", "v", "e", "r", " ", "n", "e", "v", "e", "r", " ",
      "s", "h", "o", "w", "e", "d">>
T_Hi == <<"H", "i">>
T_Refund == <<"R", "e", "f", "u", "n", "d">>
T_Removed == <<"[", "r", "e", "m", "o", "v", "e", "d", "]">>
T_Deleted == <<"[", "d", "e", "l", "e", "t", "e", "d", "]">>
T_OldPost == <<"O", "l", "d", " ", "p", "o", "s", "t">>
T_ColdFood == <<"C", "o", "l", "d", " ", "f", "o", "o", "d">>
T_Ok == <<"o", "k">>
T_OkPadded == <<" ", "o", "k", " ", " ">>
T_GreatTip == <<"G", "r", "e", "a", "t", " ", "T", "I", "P">>
T_SoTrue == <<"S", "o", " ", "t", "r", "u", "e", "!">>
T_SameHere == <<"s", "a", "m", "e", " ", "h", "e", "r", "e">>
T_Thanks == <<"T", "h", "a", "n", "k", "s">>
T_MeToo == <<"M", "e", " ", "t", "o", "o", "!", "!">>
T_Empty == <<>>

Sentinels == {T_Deleted, T_Removed}

-----------------------------------------------------------------------------
(* Time *)

RunStart == 1700000000                      \* datetime.now() in main
one_year_ago == RunStart - CutoffDays * DaySeconds

-----------------------------------------------------------------------------
(* The remote objects the listings can yield.  A comment without a body is *)
(* a MoreComments placeholder left in a partly expanded tree.  tree says   *)
(* what expanding the reply tree does: "ok" loads all of comments,         *)
(* "partial" raises with the first `loaded` of them materialized,          *)
(* "unloaded" raises with nothing materialized, "absent" has no comments   *)
(* attribute.                                                              *)

Comment(id, body, has_body, created) ==
    [id |-> id, body |-> body, has_body |-> has_body, created_utc |-> created]

P1Created == RunStart - 40 * DaySeconds
P3Created == one_year_ago + WindowSeconds
P5Created == one_year_ago + 100 * DaySeconds

Submissions ==
    { [id |-> "p1", title |-> T_LateOrder, selftext |-> T_DriverNeverShowed,
       is_self |-> TRUE, created_utc |-> P1Created, tree |-> "ok", loaded |-> 6,
       comments |-> << Comment("c1", T_Ok, TRUE, P1Created + 60),
                       Comment("c2", T_OkPadded, TRUE, P1Created + 90),
                       Comment("c3", T_Deleted, TRUE, P1Created + 100),
                       Comment("c4", T_GreatTip, TRUE, P1Created + 120),
                       Comment("c4", T_GreatTip, TRUE, P1Created + 120),
                       Comment("c9", T_SoTrue, TRUE, P1Created + 120) >>],
      [id |-> "p2", title |-> T_Hi, selftext |-> T_Thanks,
       is_self |-> FALSE, created_utc |-> one_year_ago + 10 * DaySeconds,
       tree |-> "absent", loaded |-> 0, comments |-> <<>>],
      [id |-> "p3", title |-> T_Refund, selftext |-> T_Removed,
       is_self |-> TRUE, created_utc |-> P3Created, tree |-> "partial", loaded |-> 3,
       comments |-> << Comment("m1", T_Empty, FALSE, 0),
                       Comment("c5", T_Removed, TRUE, P3Created + 30),
                       Comment("c6", T_SameHere, TRUE, P3Created + 45),
                       Comment("c7", T_Thanks, TRUE, P3Created + 50) >>],
      [id |-> "p4", title |-> T_OldPost, selftext |-> T_Empty,
       is_self |-> TRUE, created_utc |-> one_year_ago - DaySeconds,
       tree |-> "ok", loaded |-> 0, comments |-> <<>>],
      [id |-> "p5", title |-> T_ColdFood, selftext |-> T_Empty,
       is_self |-> FALSE, created_utc |-> P5Created, tree |-> "unloaded", loaded |-> 0,
       comments |-> << Comment("c8", T_MeToo, TRUE, P5Created + 10) >>] }

SubmissionIds == {s.id : s \in Submissions}
Sub(id) == CHOOSE s \in Submissions : s.id = id

-----------------------------------------------------------------------------
(* RecordExtractor.  A record is returned as a one-element sequence, None  *)
(* as the empty sequence.                                                  *)

Record(id, type, complaint, timestamp, title, parent_id, parent_title) ==
    [id |-> id, type |-> type, complaint |-> complaint, timestamp |-> timestamp,
     timestamp_dt |-> timestamp, title |-> title,
     parent_submission_id |-> parent_id, parent_submission_title |-> parent_title]

full_text(s) == s.title \o <<" ">> \o (IF s.is_self THEN s.selftext ELSE <<>>)

extract_submission_data(s) ==
    IF Len(strip(full_text(s))) < MinTextLen
    THEN <<>>
    ELSE << Record(s.id, "post", full_text(s), s.created_utc, s.title, "None", <<>>) >>

\* Mutant of extract_comment_data: the length is taken without strip().
extract_comment_data_nostrip(c, parent) ==
    IF \/ ~c.has_body
       \/ Len(c.body) < MinTextLen
       \/ c.body = T_Deleted
       \/ c.body = T_Removed
    THEN <<>>
    ELSE << Record(c.id, "comment", c.body, c.created_utc, <<>>, parent.id, parent.title) >>

\* Mutant of extract_comment_data: the sentinel bodies are not tested.
extract_comment_data_nosentinel(c, parent) ==
    IF \/ ~c.has_body
       \/ Len(strip(c.body)) < MinTextLen
    THEN <<>>
    ELSE << Record(c.id, "comment", c.body, c.created_utc, <<>>, parent.id, parent.title) >>

\* Mutant of extract_comment_data: the record names the comment itself as
\* its parent.
extract_comment_data_selfparent(c, parent) ==
    IF \/ ~c.has_body
       \/ Len(strip(c.body)) < MinTextLen
       \/ c.body = T_Deleted
       \/ c.body = T_Removed
    THEN <<>>
    ELSE << Record(c.id, "comment", c.body, c.created_utc, <<>>, c.id, parent.title) >>

extract_comment_data(c, parent) ==
    IF \/ ~c.has_body
       \/ Len(strip(c.body)) < MinTextLen
       \/ c.body = T_Deleted
       \/ c.body = T_Removed
    THEN <<>>
    ELSE << Record(c.id, "comment", c.body, c.created_utc, <<>>, parent.id, parent.title) >>

-----------------------------------------------------------------------------
(* ReplyHarvester *)

\* Mutant of loaded_comments: when the expansion fails nothing is kept of
\* what was already materialized.
loaded_comments_nofallback(s) ==
    CASE s.tree = "ok" -> [raised |-> FALSE, comments |-> s.comments]
      [] OTHER         -> [raised |-> FALSE, comments |-> <<>>]

\* The comments process_comments iterates over, and whether the failure of
\* the expansion escapes the inner try.
loaded_comments(s) ==
    CASE s.tree = "ok"       -> [raised |-> FALSE, comments |-> s.comments]
      [] s.tree = "partial"  -> [raised |-> FALSE, comments |-> SubSeq(s.comments, 1, s.loaded)]
      [] s.tree = "unloaded" -> [raised |-> FALSE, comments |-> <<>>]
      [] OTHER               -> [raised |-> FALSE, comments |-> <<>>]

RECURSIVE extract_all(_, _)
extract_all(cs, parent) ==
    IF cs = <<>> THEN <<>>
    ELSE extract_comment_data(Head(cs), parent) \o extract_all(Tail(cs), parent)

\* raised: whether an exception leaves process_comments (the outer try
\* catches everything raised inside and returns what was collected).
process_comments(s) ==
    LET l == loaded_comments(s)
    IN  IF l.raised
        THEN [raised |-> FALSE, data |-> <<>>]
        ELSE [raised |-> FALSE, data |-> extract_all(l.comments, s)]

-----------------------------------------------------------------------------
(* The loop body shared by the four strategies *)

\* Mutant of already_processed: the index is not consulted.
already_processed_never(id, ids) == FALSE

\* if submission.id in processed_ids: continue
already_processed(id, ids) == id \in ids

\* Mutant of add_comments: the reply records are appended without a look
\* at the index.
RECURSIVE add_comments_unchecked(_, _, _)
add_comments_unchecked(data, ids, items) ==
    IF items = <<>> THEN [data |-> data, ids |-> ids]
    ELSE add_comments_unchecked(Append(data, Head(items)), ids \cup {Head(items).id},
                                Tail(items))

\* Mutant of add_comments: a reply record is put at the head of the list.
RECURSIVE add_comments_front(_, _, _)
add_comments_front(data, ids, items) ==
    IF items = <<>> THEN [data |-> data, ids |-> ids]
    ELSE IF Head(items).id \in ids
         THEN add_comments_front(data, ids, Tail(items))
         ELSE add_comments_front(<<Head(items)>> \o data, ids \cup {Head(items).id},
                                 Tail(items))

\* for item in comment_data: if item['id'] not in processed_ids: append, add
RECURSIVE add_comments(_, _, _)
add_comments(data, ids, items) ==
    IF items = <<>> THEN [data |-> data, ids |-> ids]
    ELSE IF Head(items).id \in ids
         THEN add_comments(data, ids, Tail(items))
         ELSE add_comments(Append(data, Head(items)), ids \cup {Head(items).id},
                           Tail(items))

\* Mutant of out_of_range_ctl: every sorting method stops at an old submission.
out_of_range_ctl_break(method) == "break"

\* Mutant of out_of_range_ctl: 'new' skips an old submission and goes on.
out_of_range_ctl_continue(method) == "continue"

\* What meeting a submission older than the cutoff does to the listing.
out_of_range_ctl(method) == IF method = "new" THEN "break" ELSE "continue"

\* Mutant of range_ctl: the creation time is not tested.
range_ctl_unchecked(name, s, start, month_end) == "process"

\* The range test at the head of the loop body.
range_ctl(name, s, start, month_end) ==
    IF name = "monthly"
    THEN IF s.created_utc < start \/ s.created_utc > month_end
         THEN "continue" ELSE "process"
    ELSE IF s.created_utc < one_year_ago
         THEN IF name \in SortingMethods THEN out_of_range_ctl(name) ELSE "continue"
         ELSE "process"

\* Mutant of loop_body: the id of a submission the extractor rejects is
\* added to the index all the same.
loop_body_marks_rejected(name, s, data, ids, start, month_end) ==
    LET skip == [data |-> data, ids |-> ids, ctl |-> "next", harvested |-> FALSE,
                 seen |-> FALSE]
        rc == range_ctl(name, s, start, month_end)
    IN  IF rc = "break" THEN [skip EXCEPT !.ctl = "break"]
        ELSE IF rc = "continue" THEN skip
        ELSE IF already_processed(s.id, ids) THEN [skip EXCEPT !.seen = TRUE]
        ELSE LET post_data == extract_submission_data(s)
             IN  IF post_data = <<>> THEN [skip EXCEPT !.ids = ids \cup {s.id}]
                 ELSE LET h == process_comments(s)
                          a == add_comments(data \o post_data, ids \cup {s.id}, h.data)
                      IN  [data |-> a.data, ids |-> a.ids,
                           ctl |-> "next", harvested |-> TRUE, seen |-> FALSE]

\* One iteration of the loop body on submission s.  ctl is how the
\* iteration ends: "next" (go on with the listing), "break", or "raise".
loop_body(name, s, data, ids, start, month_end) ==
    LET skip == [data |-> data, ids |-> ids, ctl |-> "next", harvested |-> FALSE,
                 seen |-> FALSE]
        rc == range_ctl(name, s, start, month_end)
    IN  IF rc = "break" THEN [skip EXCEPT !.ctl = "break"]
        ELSE IF rc = "continue" THEN skip
        ELSE IF already_processed(s.id, ids) THEN [skip EXCEPT !.seen = TRUE]
        ELSE LET post_data == extract_submission_data(s)
             IN  IF post_data = <<>> THEN skip
                 ELSE LET h == process_comments(s)
                          a == add_comments(data \o post_data, ids \cup {s.id}, h.data)
                      IN  IF h.raised
                          THEN [data |-> data \o post_data, ids |-> ids \cup {s.id},
                                ctl |-> "raise", harvested |-> TRUE, seen |-> FALSE]
                          ELSE [data |-> a.data, ids |-> a.ids,
                                ctl |-> "next", harvested |-> TRUE, seen |-> FALSE]

-----------------------------------------------------------------------------
(* Control flow of the strategies *)

Min(a, b) == IF a < b THEN a ELSE b

\* Mutant of month_end: the window is not clipped to end_timestamp.
month_end_unclipped(start, end) == start + WindowSeconds

\* collect_monthly_paginated: the end of the window that starts at `start`.
month_end(start, end) == Min(start + WindowSeconds, end)

\* Mutant of next_start: the next window starts a window's length before
\* the end of this one.
next_start_back(m_end) == m_end - WindowSeconds

\* collect_monthly_paginated: the start of the window after the one ending at m_end.
next_start(m_end) == m_end

NumListings(name) ==
    CASE name \in SortingMethods -> Len(time_filters(name))
      [] name = "search"         -> NumSearchTerms
      [] name = "flair"          -> NumFlairs
      [] OTHER                   -> 0

\* Whether the strategy has a listing number l to begin.
more_listings(name, l, start, end) ==
    IF name = "monthly" THEN start < end ELSE l <= NumListings(name)

\* Mutant of except_scope: collect_sorting has no try block.
except_scope_sorting_untried(name) ==
    IF name \in SortingMethods THEN "main" ELSE "listing"

\* The try block that catches an exception raised while a listing is
\* iterated: around one listing ("listing"), around the whole loop over
\* the listings ("strategy"), or none ("main").
except_scope(name) == IF name \in SortingMethods THEN "strategy" ELSE "listing"

\* The strategy main is running, "None" once all have returned.
name_of(k) == IF k \in DOMAIN StrategyOrder THEN StrategyOrder[k] ELSE "None"

NoHarvest == [id |-> "None", raised |-> FALSE, data |-> <<>>]

\* No strategy has run.
InitStrategies ==
    /\ strat = 1
    /\ listing = 0
    /\ start_timestamp = 0
    /\ end_timestamp = 0
    /\ processed_ids = {}
    /\ out = [n \in Strategies |-> <<>>]
    /\ submission = "None"
    /\ skipped_old = FALSE
    /\ fetched = 0
    /\ raised = 0
    /\ windows = <<>>
    /\ started = <<>>
    /\ returned = <<>>
    /\ sawOld = FALSE
    /\ harvests = 0
    /\ lastHarvest = NoHarvest
    /\ seen_again = 0
    /\ all_data = <<>>

\* Nothing has been written to the data directory.
InitFiles ==
    /\ raw_file = <<>>
    /\ processed_file = <<>>

\* run_pipeline.main is not running.
NoBatch ==
    /\ config = "ok"
    /\ apps = <<>>
    /\ b_pc = "idle"
    /\ app_i = 0
    /\ results = <<>>
    /\ invoked = <<>>
    /\ store = <<>>
    /\ remote_log = <<>>
    /\ error_log = <<>>
    /\ n_rows = 0
    /\ reddit_open = {}

\* backup_platform_data is not running.
NoBackup ==
    /\ k_pc = "idle"
    /\ platform_dir = <<>>
    /\ data_type_i = 0
    /\ pending = <<>>
    /\ dir_processed = 0
    /\ files_processed = 0
    /\ attempted = {}
    /\ uploaded = {}
    /\ returned_count = <<>>

Init ==
    /\ pc = "call"
    /\ InitStrategies
    /\ df = <<>>
    /\ df_transformed = <<>>
    /\ InitFiles
    /\ NoBatch
    /\ NoBackup

\* The head of the loop over the listings, reached with listing number l and
\* window start `start`: the listing is begun (for the monthly strategy its
\* window is computed), or the loop is over and the strategy is about to return.
LoopHead(name, l, start, end) ==
    /\ listing' = l
    /\ start_timestamp' = start
    /\ submission' = "None"
    /\ skipped_old' = FALSE
    /\ IF more_listings(name, l, start, end)
       THEN /\ pc' = "iter"
            /\ windows' = IF name = "monthly"
                          THEN Append(windows, <<start, month_end(start, end)>>)
                          ELSE windows
       ELSE /\ pc' = "ret"
            /\ windows' = windows

\* The current listing is left for the next one.
NextListing ==
    LoopHead(name_of(strat), listing + 1,
             IF name_of(strat) = "monthly"
             THEN next_start(month_end(start_timestamp, end_timestamp))
             ELSE start_timestamp,
             end_timestamp)

\* An exception raised inside the listing's loop reaches the enclosing try.
Caught ==
    CASE except_scope(name_of(strat)) = "listing" -> NextListing
      [] except_scope(name_of(strat)) = "strategy" ->
             pc' = "ret" /\ UNCHANGED <<listing, start_timestamp, submission, skipped_old,
                                       windows>>
      [] OTHER ->
             pc' = "aborted" /\ UNCHANGED <<listing, start_timestamp, submission, skipped_old,
                                       windows>>

\* main calls the next strategy (lines 96, 102, 107, 112, 117, 122, 127);
\* collect_monthly_paginated takes its own "now" (line 158).
CallStrategy ==
    /\ pc = "call"
    /\ strat <= Len(StrategyOrder)
    /\ started' = Append(started, name_of(strat))
    /\ IF name_of(strat) = "monthly"
       THEN \E delay \in 0..MaxDelay :
                /\ end_timestamp' = RunStart + delay
                /\ LoopHead("monthly", 1, one_year_ago, RunStart + delay)
       ELSE /\ end_timestamp' = end_timestamp
            /\ LoopHead(name_of(strat), 1, start_timestamp, end_timestamp)
    /\ UNCHANGED <<strat, processed_ids, out, fetched, raised, returned, sawOld,
                   harvests, lastHarvest, seen_again, all_data, df, df_transformed>>
    /\ UNCHANGED file_vars
    /\ UNCHANGED batch_vars
    /\ UNCHANGED backup_vars

\* The listing yields submission id and the loop body runs on it.
Yield(id) ==
    /\ pc = "iter"
    /\ fetched < MaxFetch
    /\ LET name == name_of(strat)
           s == Sub(id)
           r == loop_body(name, s, out[name], processed_ids, start_timestamp,
                          month_end(start_timestamp, end_timestamp))
       IN  /\ fetched' = fetched + 1
           /\ out' = [out EXCEPT ![name] = r.data]
           /\ processed_ids' = r.ids
           /\ sawOld' = (sawOld \/ (name = "new" /\ s.created_utc < one_year_ago))
           /\ harvests' = IF r.harvested THEN harvests + 1 ELSE harvests
           /\ seen_again' = IF r.seen THEN seen_again + 1 ELSE seen_again
           /\ lastHarvest' =
                  IF r.harvested
                  THEN [id |-> id, raised |-> process_comments(s).raised,
                        data |-> process_comments(s).data]
                  ELSE lastHarvest
           /\ CASE r.ctl = "next" ->
                      /\ pc' = "iter"
                      /\ submission' = id
                      /\ skipped_old' = (skipped_old \/ s.created_utc < one_year_ago)
                      /\ UNCHANGED <<listing, start_timestamp, windows, raised>>
                [] r.ctl = "break" ->
                      /\ NextListing
                      /\ UNCHANGED raised
                [] OTHER ->
                      /\ raised' = raised + 1
                      /\ Caught
    /\ UNCHANGED <<strat, end_timestamp, started, returned, all_data, df,
                   df_transformed>>
    /\ UNCHANGED file_vars
    /\ UNCHANGED batch_vars
    /\ UNCHANGED backup_vars

\* The listing is exhausted.
EndListing ==
    /\ pc = "iter"
    /\ NextListing
    /\ UNCHANGED <<strat, end_timestamp, processed_ids, out, fetched, raised,
                   started, returned, sawOld, harvests, lastHarvest, seen_again, all_data, df,
                   df_transformed>>
    /\ UNCHANGED file_vars
    /\ UNCHANGED batch_vars
    /\ UNCHANGED backup_vars

\* Fetching the next page, or reading the submission just received, raises.
Raise ==
    /\ pc = "iter"
    /\ raised < MaxRaise
    /\ raised' = raised + 1
    /\ Caught
    /\ UNCHANGED <<strat, end_timestamp, processed_ids, out, fetched, started,
                   returned, sawOld, harvests, lastHarvest, seen_again, all_data, df,
                   df_transformed>>
    /\ UNCHANGED file_vars
    /\ UNCHANGED batch_vars
    /\ UNCHANGED backup_vars

\* The strategy returns its data to main; its local variables are gone.
ReturnStrategy ==
    /\ pc = "ret"
    /\ returned' = Append(returned, name_of(strat))
    /\ strat' = strat + 1
    /\ pc' = IF strat = Len(StrategyOrder) THEN "merge" ELSE "call"
    /\ listing' = 0
    /\ start_timestamp' = 0
    /\ end_timestamp' = 0
    /\ windows' = <<>>
    /\ submission' = "None"
    /\ skipped_old' = FALSE
    /\ UNCHANGED <<processed_ids, out, fetched, raised, started, sawOld, harvests,
                   lastHarvest, seen_again, all_data, df, df_transformed>>
    /\ UNCHANGED file_vars
    /\ UNCHANGED batch_vars
    /\ UNCHANGED backup_vars

-----------------------------------------------------------------------------
(* process_dataframe and transform_data.  A frame is a sequence of rows; a  *)
(* row is a record plus its pandas row label `index` (the position of the  *)
(* record in the list the frame was built from).  nulls is the set of the  *)
(* row's columns that hold a null.                                         *)

AppName == "app"

\* pd.DataFrame(data): a key that a record does not have is a null of its
\* row (a post has no parent_submission_* keys, a comment has no title).
DataFrame(data) ==
    [i \in 1..Len(data) |->
        [index |-> i - 1, id |-> data[i].id, type |-> data[i].type,
         complaint |-> data[i].complaint, timestamp |-> data[i].timestamp,
         timestamp_dt |-> data[i].timestamp_dt, title |-> data[i].title,
         parent_submission_id |-> data[i].parent_submission_id,
         parent_submission_title |-> data[i].parent_submission_title,
         nulls |-> IF data[i].type = "post"
                   THEN {"parent_submission_id", "parent_submission_title"}
                   ELSE {"title"}]]

\* df.drop_duplicates(subset=['id']): the first row of every id is kept.
RECURSIVE drop_duplicates(_)
drop_duplicates(rows) ==
    IF rows = <<>> THEN <<>>
    ELSE LET init == drop_duplicates(SubSeq(rows, 1, Len(rows) - 1))
             last == rows[Len(rows)]
         IN  IF \E i \in DOMAIN init : init[i].id = last.id
             THEN init ELSE Append(init, last)

\* Mutant of orders_of: the rows are put oldest first.
RECURSIVE orders_of_ascending(_)
orders_of_ascending(S) ==
    IF S = {} THEN {<<>>}
    ELSE LET dated == {r \in S : "timestamp_dt" \notin r.nulls}
             oldest == IF dated = {} THEN S
                       ELSE {r \in dated : \A q \in dated : r.timestamp_dt <= q.timestamp_dt}
         IN  UNION {{<<r>> \o t : t \in orders_of_ascending(S \ {r})} : r \in oldest}

\* df.sort_values(by='timestamp_dt', ascending=False): every order of the
\* rows in which the timestamps never increase (the order of rows of equal
\* timestamp is left to the sorting algorithm); rows with a null timestamp
\* come last.
RECURSIVE orders_of(_)
orders_of(S) ==
    IF S = {} THEN {<<>>}
    ELSE LET dated == {r \in S : "timestamp_dt" \notin r.nulls}
             newest == IF dated = {} THEN S
                       ELSE {r \in dated : \A q \in dated : q.timestamp_dt <= r.timestamp_dt}
         IN  UNION {{<<r>> \o t : t \in orders_of(S \ {r})} : r \in newest}

sort_values(rows) == orders_of({rows[i] : i \in DOMAIN rows})

\* main, line 133
merged(o) ==
    o["monthly"] \o o["new"] \o o["hot"] \o o["top"] \o o["controversial"]
        \o o["search"] \o o["flair"]

\* The frames process_dataframe can return for the list `data`.
process_dataframe(data) == sort_values(drop_duplicates(DataFrame(data)))

\* Mutant of raw_snapshot: top_data is concatenated a second time and the
\* frame is sorted without the drop of duplicate ids.
raw_snapshot_top_twice(o) == sort_values(DataFrame(merged(o) \o o["top"]))

\* main, lines 133-136: the raw snapshot of the strategies' outputs.
raw_snapshot(o) == process_dataframe(merged(o))

\* Mutant of dropna_subset: only a null text removes a row.
dropna_subset_text_only == {"complaint"}

\* The columns whose nulls remove a row (line 602).
dropna_subset == {"complaint", "timestamp_dt"}

RECURSIVE Reverse(_)
Reverse(q) == IF q = <<>> THEN <<>> ELSE Append(Reverse(Tail(q)), Head(q))

\* Mutant of dropna: the rows that are kept come out in reverse order.
dropna_reversed(rows, subset) ==
    Reverse(SelectSeq(rows, LAMBDA r : r.nulls \cap subset = {}))

\* df.dropna(subset=...): the rows with no null in the columns of subset,
\* in the order they had.
dropna(rows, subset) == SelectSeq(rows, LAMBDA r : r.nulls \cap subset = {})

\* df.rename(columns=...), lines 611-615
renamed(c) ==
    CASE c = "complaint"    -> "review"
      [] c = "timestamp_dt" -> "review_datetime"
      [] c = "upvotes"      -> "upvote_count"
      [] OTHER              -> c

\* df.drop(columns=...), lines 622-626
dropped_columns ==
    {"id", "date", "type", "time", "timestamp", "url", "permalink",
     "is_self_post", "source", "upvote_ratio", "flair", "username", "title"}

\* Mutant of input_after_transform: the text is lowercased on the frame the
\* caller passed in.
input_after_transform_aliased(rows) ==
    [i \in DOMAIN rows |-> [rows[i] EXCEPT !.complaint = lower(@)]]

\* The caller's frame after transform_data has returned: the function works
\* on df.copy() (line 591) and on the frames dropna returns, so the frame
\* passed in is left as it was.
input_after_transform(rows) == rows

transform_data(rows, app_name) ==
    LET kept == dropna(rows, dropna_subset)
    IN  [i \in DOMAIN kept |->
            [index |-> kept[i].index,
             review |-> lower(kept[i].complaint),
             review_datetime |-> kept[i].timestamp_dt,
             parent_submission_id |-> kept[i].parent_submission_id,
             parent_submission_title |-> kept[i].parent_submission_title,
             data_source |-> "Reddit",
             app_name |-> app_name,
             nulls |-> {renamed(c) : c \in kept[i].nulls \ dropped_columns}]]

\* df.to_csv(file, index=False): the rows in their order, without the row
\* label; a null is an empty field.
to_csv(rows) ==
    [i \in DOMAIN rows |-> [f \in (DOMAIN rows[i]) \ {"index"} |-> rows[i][f]]]

\* main, lines 132-148, on a non-empty result.
Merge ==
    /\ pc = "merge"
    /\ merged(out) # <<>>
    /\ all_data' = merged(out)
    /\ \E d \in raw_snapshot(out) :
           /\ df' = input_after_transform(d)
           /\ raw_file' = to_csv(d)
           /\ df_transformed' = transform_data(d, AppName)
           /\ processed_file' = to_csv(transform_data(d, AppName))
    /\ pc' = "done"
    /\ UNCHANGED <<strat, listing, start_timestamp, end_timestamp, processed_ids, out,
                   submission, skipped_old, fetched, raised, windows, started, returned,
                   sawOld, harvests, lastHarvest, seen_again>>
    /\ UNCHANGED batch_vars
    /\ UNCHANGED backup_vars

\* main, lines 132-136, on an empty result: the frame has no column 'id'
\* and drop_duplicates raises.
MergeEmpty ==
    /\ pc = "merge"
    /\ merged(out) = <<>>
    /\ all_data' = merged(out)
    /\ pc' = "failed"
    /\ UNCHANGED <<strat, listing, start_timestamp, end_timestamp, processed_ids, out,
                   submission, skipped_old, fetched, raised, windows, started, returned,
                   sawOld, harvests, lastHarvest, seen_again, df, df_transformed>>
    /\ UNCHANGED file_vars
    /\ UNCHANGED batch_vars
    /\ UNCHANGED backup_vars

Next ==
    \/ CallStrategy
    \/ \E id \in SubmissionIds : Yield(id)
    \/ EndListing
    \/ Raise
    \/ ReturnStrategy
    \/ Merge
    \/ MergeEmpty

Spec == Init /\ [][Next]_vars

-----------------------------------------------------------------------------
(* collect_monthly_paginated on its own, from main's call of it to its     *)
(* return.  The event loop runs the coroutine on (the call and the return  *)
(* happen), and every listing of the remote is finite: a listing that is   *)
(* being iterated eventually ends, unless the iteration is left before.    *)

MonthlyCall == strat = 1 /\ CallStrategy

MonthlyYield(id) == strat = 1 /\ Yield(id)

MonthlyEndListing == strat = 1 /\ EndListing

MonthlyRaise == strat = 1 /\ Raise

MonthlyReturn == strat = 1 /\ ReturnStrategy

NextMonthly ==
    \/ MonthlyCall
    \/ \E id \in SubmissionIds : MonthlyYield(id)
    \/ MonthlyEndListing
    \/ MonthlyRaise
    \/ MonthlyReturn

MonthlySpec ==
    /\ Init
    /\ [][NextMonthly]_vars
    /\ WF_vars(MonthlyCall)
    /\ WF_vars(MonthlyEndListing)
    /\ WF_vars(MonthlyReturn)

-----------------------------------------------------------------------------
(* transform_data and load_data on their own: the raw snapshot is any frame *)
(* process_dataframe could return for up to MaxRows records, nulls in the  *)
(* text and timestamp columns included.                                    *)

RawRow(index, id, type, complaint, timestamp, nulls) ==
    [index |-> index, id |-> id, type |-> type, complaint |-> complaint,
     timestamp |-> timestamp, timestamp_dt |-> timestamp, title |-> T_Empty,
     parent_submission_id |-> "p1", parent_submission_title |-> T_LateOrder,
     nulls |-> nulls]

RawRows ==
    { RawRow(0, "p1", "post", T_LateOrder \o <<" ">> \o T_DriverNeverShowed, P1Created,
             {"parent_submission_id", "parent_submission_title"}),
      RawRow(1, "c4", "comment", T_GreatTip, P1Created + 120, {"title"}),
      RawRow(2, "x1", "comment", T_Empty, P1Created + 100, {"title", "complaint"}),
      RawRow(3, "c9", "comment", T_SoTrue, P1Created + 120, {"title"}),
      RawRow(4, "x2", "comment", T_SameHere, 0, {"title", "timestamp_dt"}),
      RawRow(5, "x3", "comment", T_Empty, 0, {"title", "complaint", "timestamp_dt"}) }

RawFrames ==
    UNION {orders_of(S) : S \in {R \in SUBSET RawRows : Cardinality(R) \in 1..MaxRows}}

InitTransform ==
    /\ pc = "raw"
    /\ InitStrategies
    /\ df \in RawFrames
    /\ df_transformed = <<>>
    /\ InitFiles
    /\ NoBatch
    /\ NoBackup

\* main, line 142
Transform ==
    /\ pc = "raw"
    /\ df_transformed' = transform_data(df, AppName)
    /\ pc' = "transformed"
    /\ df' = input_after_transform(df)
    /\ UNCHANGED <<strategy_vars, file_vars>>
    /\ UNCHANGED batch_vars
    /\ UNCHANGED backup_vars

\* main, line 145
Load ==
    /\ pc = "transformed"
    /\ processed_file' = to_csv(df_transformed)
    /\ pc' = "loaded"
    /\ UNCHANGED <<strategy_vars, df, df_transformed, raw_file>>
    /\ UNCHANGED batch_vars
    /\ UNCHANGED backup_vars

\* transform_data is called once more on the same raw snapshot.
TransformAgain ==
    /\ pc = "loaded"
    /\ df_transformed' = transform_data(df, AppName)
    /\ pc' = "again"
    /\ df' = input_after_transform(df)
    /\ UNCHANGED <<strategy_vars, file_vars>>
    /\ UNCHANGED batch_vars
    /\ UNCHANGED backup_vars

NextTransform == Transform \/ Load \/ TransformAgain

TransformSpec == InitTransform /\ [][NextTransform]_vars

-----------------------------------------------------------------------------
(* run_pipeline.main and process_app.  The three adapters are followed     *)
(* call by call; what a remote returns is reduced to the number of rows    *)
(* it yields.  A file of the data directory is <<>> while it does not      *)
(* exist and <<n>> once a frame of n rows has been written to it.          *)

TargetNames == <<"app1", "app2", "app3", "app4">>

\* An entry of config['apps']; missing are the keys the entry lacks.
AppConfig(i, missing) ==
    [app_name |-> TargetNames[i], app_path |-> TargetNames[i], missing |-> missing]

MissingKeys == {{}, {"app_store_id"}, {"app_path"}}

AppConfigs ==
    {[i \in 1..NumApps |-> AppConfig(i, m[i])] : m \in [1..NumApps -> MissingKeys]}

\* The row counts the strategies of reddit_etl.main can end with: nothing,
\* the largest count run_sanity_tests rejects, the smallest it accepts.
RowCounts == {0, SanityMinRows, SanityMinRows + 1}

\* Mutant of data_dir: every target is given the same directory.
data_dir_shared(app_path) == <<"data">>

\* Path(__file__).parent.parent / 'data' / app_path
data_dir(app_path) == <<"data", app_path>>

NoFiles ==
    [app_store_raw |-> <<>>, app_store_processed |-> <<>>,
     google_play_raw |-> <<>>, google_play_processed |-> <<>>,
     reddit_raw |-> <<>>, reddit_processed |-> <<>>, combined_reviews |-> <<>>]

AggregateDir == <<"aggregate">>

InitBatch ==
    /\ pc = "idle"
    /\ InitStrategies
    /\ df = <<>>
    /\ df_transformed = <<>>
    /\ InitFiles
    /\ config \in {"ok", "no_file", "no_env"}
    /\ apps \in AppConfigs
    /\ b_pc = "start"
    /\ app_i = 0
    /\ results = <<>>
    /\ invoked = <<>>
    /\ store = [d \in {data_dir(apps[i].app_path) : i \in DOMAIN apps} \cup {AggregateDir}
                   |-> NoFiles]
    /\ remote_log = <<>>
    /\ error_log = <<>>
    /\ n_rows = 0
    /\ reddit_open = {}
    /\ NoBackup

\* run_pipeline.main, lines 169-182: the configuration is read; without a
\* config file, or without apps, main returns at once.
LoadPipelineConfig ==
    /\ b_pc = "start"
    /\ IF config = "no_file" \/ apps = <<>>
       THEN b_pc' = "exit" /\ app_i' = app_i
       ELSE b_pc' = "process_app" /\ app_i' = 1
    /\ UNCHANGED <<config, apps, results, invoked, store, remote_log, error_log,
                   n_rows, reddit_open>>
    /\ UNCHANGED collector_vars
    /\ UNCHANGED backup_vars

\* process_app returns `result` to main, which appends it to results and
\* goes on with the next app (lines 183-185).
Return(result) ==
    /\ results' = Append(results, <<apps[app_i].app_name, result>>)
    /\ app_i' = app_i + 1
    /\ b_pc' = IF app_i = Len(apps) THEN "backup" ELSE "process_app"
    /\ n_rows' = 0

\* An exception of the given kind is raised inside the try of process_app
\* and caught by lines 89-92.
ProcessAppExcept(kind) ==
    /\ error_log' = Append(error_log, [app |-> app_i, kind |-> kind, step |-> b_pc,
                                       at |-> Len(remote_log')])
    /\ Return(FALSE)

\* Mutant of process_app_steps: the Play Store adapter is run first.
process_app_steps_play_first == <<"play_store", "app_store", "reddit_config", "combine">>

\* process_app, lines 57-79: the adapters in the order they are called
\* ("reddit_config" is the entry of reddit_etl.main).
process_app_steps == <<"app_store", "play_store", "reddit_config", "combine">>

app_step_after(step) ==
    process_app_steps[(CHOOSE k \in DOMAIN process_app_steps :
                           process_app_steps[k] = step) + 1]

\* main calls process_app (line 184), which reads app_name and app_path
\* before its try (lines 49-50): a KeyError there leaves process_app and
\* main.
ProcessApp ==
    /\ b_pc = "process_app"
    /\ invoked' = Append(invoked, app_i)
    /\ IF apps[app_i].missing \cap {"app_name", "app_path"} # {}
       THEN /\ b_pc' = "crashed"
            /\ error_log' = Append(error_log, [app |-> app_i, kind |-> "KeyError",
                                               step |-> b_pc, at |-> Len(remote_log)])
       ELSE /\ b_pc' = process_app_steps[1]
            /\ error_log' = error_log
    /\ UNCHANGED <<config, apps, app_i, results, store, remote_log, n_rows, reddit_open>>
    /\ UNCHANGED collector_vars
    /\ UNCHANGED backup_vars

\* The number of rows a file holds.
Rows(f) == IF f = <<>> THEN 0 ELSE f[1]

\* The file of the current app's directory is overwritten with n rows.
Written(st, file, n) == [st EXCEPT ![data_dir(apps[app_i].app_path)][file] = <<n>>]

\* process_app, lines 57-63, and app_store_etl.main: the reviews are
\* fetched; the assertions on the raw frame come before save_raw_data, those
\* on the processed frame before save_processed_data.
AppStoreETL ==
    /\ b_pc = "app_store"
    /\ IF "app_store_id" \in apps[app_i].missing
       THEN /\ remote_log' = remote_log
            /\ store' = store
            /\ ProcessAppExcept("KeyError")
       ELSE /\ remote_log' = Append(remote_log, <<app_i, "app_store">>)
            /\ \E outcome \in {"ok", "raw_invalid", "processed_invalid"} :
                   CASE outcome = "ok" ->
                            /\ store' = Written(Written(store, "app_store_raw", AppStoreMinRows),
                                                "app_store_processed", AppStoreMinRows)
                            /\ b_pc' = app_step_after("app_store")
                            /\ UNCHANGED <<app_i, results, error_log, n_rows>>
                     [] outcome = "raw_invalid" ->
                            /\ store' = store
                            /\ ProcessAppExcept("AssertionError")
                     [] OTHER ->
                            /\ store' = Written(store, "app_store_raw", AppStoreMinRows)
                            /\ ProcessAppExcept("AssertionError")
    /\ UNCHANGED <<config, apps, invoked, reddit_open>>
    /\ UNCHANGED collector_vars
    /\ UNCHANGED backup_vars

\* process_app, lines 67-71, and google_play_etl.main, whose try catches
\* whatever its steps raise.
PlayStoreETL ==
    /\ b_pc = "play_store"
    /\ IF "play_store_id" \in apps[app_i].missing
       THEN /\ remote_log' = remote_log
            /\ store' = store
            /\ ProcessAppExcept("KeyError")
       ELSE /\ remote_log' = Append(remote_log, <<app_i, "google_play">>)
            /\ \E outcome \in {"ok", "raw_only", "failed"} :
                   store' = CASE outcome = "ok" ->
                                     Written(Written(store, "google_play_raw", 1),
                                             "google_play_processed", 1)
                              [] outcome = "raw_only" -> Written(store, "google_play_raw", 1)
                              [] OTHER -> store
            /\ b_pc' = app_step_after("play_store")
            /\ UNCHANGED <<app_i, results, error_log, n_rows>>
    /\ UNCHANGED <<config, apps, invoked, reddit_open>>
    /\ UNCHANGED collector_vars
    /\ UNCHANGED backup_vars

\* Mutant of main_steps: the sanity tests are run before anything is saved.
main_steps_validate_first ==
    <<"reddit_process", "reddit_sanity", "reddit_save_raw", "reddit_load", "reddit_close">>

\* reddit_etl.main, lines 136-151: the calls main makes once the strategies
\* have returned, in order; each one is reached when the one before returns.
main_steps ==
    <<"reddit_process", "reddit_save_raw", "reddit_load", "reddit_sanity", "reddit_close">>

step_after(step) ==
    main_steps[(CHOOSE k \in DOMAIN main_steps : main_steps[k] = step) + 1]

\* process_app, line 75, and reddit_etl.main, lines 70-93: load_config
\* raises when the file is missing or a credential's environment variable is
\* unset; otherwise the client is created.
RedditLoadConfig ==
    /\ b_pc = "reddit_config"
    /\ remote_log' = remote_log
    /\ IF "subreddit_name" \in apps[app_i].missing
       THEN reddit_open' = reddit_open /\ ProcessAppExcept("KeyError")
       ELSE IF config # "ok"
       THEN reddit_open' = reddit_open /\ ProcessAppExcept("ConfigError")
       ELSE /\ reddit_open' = reddit_open \cup {app_i}
            /\ b_pc' = "reddit_collect"
            /\ UNCHANGED <<app_i, results, error_log, n_rows>>
    /\ UNCHANGED <<config, apps, invoked, store>>
    /\ UNCHANGED collector_vars
    /\ UNCHANGED backup_vars

\* reddit_etl.main, lines 96-133: the seven strategies run against the
\* remote and none of them raises.
RedditCollect ==
    /\ b_pc = "reddit_collect"
    /\ remote_log' = Append(remote_log, <<app_i, "reddit">>)
    /\ n_rows' \in RowCounts
    /\ b_pc' = "reddit_process"
    /\ UNCHANGED <<config, apps, app_i, results, invoked, store, error_log, reddit_open>>
    /\ UNCHANGED collector_vars
    /\ UNCHANGED backup_vars

\* Mutant of on_exception: the client is closed on the way out, as a
\* finally clause would do.
on_exception_closes(open, i) == open \ {i}

\* The open clients once an exception has left reddit_etl.main: lines
\* 96-148 stand in no try, finally or async with, so the client of the run
\* stays as it is.
on_exception(open, i) == open

\* reddit_etl.main, line 136: process_dataframe raises on an empty list
\* (the frame has no column 'id').
RedditProcess ==
    /\ b_pc = "reddit_process"
    /\ remote_log' = remote_log
    /\ IF n_rows = 0
       THEN /\ reddit_open' = on_exception(reddit_open, app_i)
            /\ ProcessAppExcept("KeyError")
       ELSE /\ b_pc' = step_after("reddit_process")
            /\ UNCHANGED <<app_i, results, error_log, n_rows, reddit_open>>
    /\ UNCHANGED <<config, apps, invoked, store>>
    /\ UNCHANGED collector_vars
    /\ UNCHANGED backup_vars

\* reddit_etl.main, line 139
RedditSaveRaw ==
    /\ b_pc = "reddit_save_raw"
    /\ store' = Written(store, "reddit_raw", n_rows)
    /\ b_pc' = step_after("reddit_save_raw")
    /\ UNCHANGED <<config, apps, app_i, results, invoked, remote_log, error_log, n_rows,
                   reddit_open>>
    /\ UNCHANGED collector_vars
    /\ UNCHANGED backup_vars

\* reddit_etl.main, lines 142-145: the extractors leave no null text or
\* timestamp, so transform_data keeps every row.
RedditTransformLoad ==
    /\ b_pc = "reddit_load"
    /\ store' = Written(store, "reddit_processed", n_rows)
    /\ b_pc' = step_after("reddit_load")
    /\ UNCHANGED <<config, apps, app_i, results, invoked, remote_log, error_log, n_rows,
                   reddit_open>>
    /\ UNCHANGED collector_vars
    /\ UNCHANGED backup_vars

\* run_sanity_tests on the frame transform_data returned: of its assertions
\* only the one on the row count (line 697) can fail on such a frame.
run_sanity_tests(n) == n > SanityMinRows

\* reddit_etl.main, line 148
RedditSanity ==
    /\ b_pc = "reddit_sanity"
    /\ remote_log' = remote_log
    /\ IF run_sanity_tests(n_rows)
       THEN /\ b_pc' = step_after("reddit_sanity")
            /\ UNCHANGED <<app_i, results, error_log, n_rows, reddit_open>>
       ELSE /\ reddit_open' = on_exception(reddit_open, app_i)
            /\ ProcessAppExcept("AssertionError")
    /\ UNCHANGED <<config, apps, invoked, store>>
    /\ UNCHANGED collector_vars
    /\ UNCHANGED backup_vars

\* reddit_etl.main, lines 151-153
RedditClose ==
    /\ b_pc = "reddit_close"
    /\ reddit_open' = reddit_open \ {app_i}
    /\ b_pc' = app_step_after("reddit_config")
    /\ UNCHANGED <<config, apps, app_i, results, invoked, store, remote_log, error_log,
                   n_rows>>
    /\ UNCHANGED collector_vars
    /\ UNCHANGED backup_vars

\* process_app, lines 79-87, and combine_reviews_for_platform: the three
\* processed files of the target are concatenated and written, unless they
\* hold nothing; process_app returns True either way.
Combine ==
    /\ b_pc = "combine"
    /\ LET files == store[data_dir(apps[app_i].app_path)]
           total == Rows(files.reddit_processed) + Rows(files.google_play_processed)
                        + Rows(files.app_store_processed)
       IN  store' = IF total = 0 THEN store ELSE Written(store, "combined_reviews", total)
    /\ Return(TRUE)
    /\ UNCHANGED <<config, apps, invoked, remote_log, error_log, reddit_open>>
    /\ UNCHANGED collector_vars
    /\ UNCHANGED backup_vars

\* run_pipeline.main, lines 188-196: run_s3_backup returns True or False and
\* main goes on either way.
RunBackup ==
    /\ b_pc = "backup"
    /\ \E backup_success \in BOOLEAN : b_pc' = "aggregate"
    /\ UNCHANGED <<config, apps, app_i, results, invoked, store, remote_log, error_log,
                   n_rows, reddit_open>>
    /\ UNCHANGED collector_vars
    /\ UNCHANGED backup_vars

RECURSIVE SumRows(_, _)
SumRows(st, k) ==
    IF k = 0 THEN 0
    ELSE Rows(st[data_dir(apps[k].app_path)].combined_reviews) + SumRows(st, k - 1)

\* run_pipeline.main, lines 198-209, and aggregate_review_data
Aggregate ==
    /\ b_pc = "aggregate"
    /\ store' = IF SumRows(store, Len(apps)) = 0 THEN store
                ELSE [store EXCEPT ![AggregateDir].combined_reviews =
                                        <<SumRows(store, Len(apps))>>]
    /\ b_pc' = "end"
    /\ UNCHANGED <<config, apps, app_i, results, invoked, remote_log, error_log, n_rows,
                   reddit_open>>
    /\ UNCHANGED collector_vars
    /\ UNCHANGED backup_vars

NextBatch ==
    \/ LoadPipelineConfig
    \/ ProcessApp
    \/ AppStoreETL
    \/ PlayStoreETL
    \/ RedditLoadConfig
    \/ RedditCollect
    \/ RedditProcess
    \/ RedditSaveRaw
    \/ RedditTransformLoad
    \/ RedditSanity
    \/ RedditClose
    \/ Combine
    \/ RunBackup
    \/ Aggregate

BatchSpec == InitBatch /\ [][NextBatch]_vars

-----------------------------------------------------------------------------
(* reddit_etl.main called once for each target, one call after the other   *)
(* (process_app, line 75).  Everything main and its strategies hold is     *)
(* local to the call.  Here MaxFetch and MaxRaise bound what the remote    *)
(* yields and raises over all the calls together.                          *)

\* Mutant of new_processed_ids: the set of the call before is used again.
new_processed_ids_shared(previous) == previous

\* main, line 93: processed_ids = set()
new_processed_ids(previous) == {}

InitRuns ==
    /\ pc = "call"
    /\ InitStrategies
    /\ df = <<>>
    /\ df_transformed = <<>>
    /\ InitFiles
    /\ config = "ok"
    /\ apps = [i \in 1..NumApps |-> AppConfig(i, {})]
    /\ b_pc = "reddit_collect"
    /\ app_i = 1
    /\ results = <<>>
    /\ invoked = <<>>
    /\ store = <<>>
    /\ remote_log = <<>>
    /\ error_log = <<>>
    /\ n_rows = 0
    /\ reddit_open = {}
    /\ NoBackup

\* main has returned for one target and is called for the next one: lines
\* 87-93 run again, and the files are those of the new target's directory.
\* (A run that collected nothing leaves nothing a later run could take over;
\* the runs followed here are those after a run that collected something.)
MainAgain ==
    /\ pc = "done"
    /\ app_i < Len(apps)
    /\ app_i' = app_i + 1
    /\ pc' = "call"
    /\ strat' = 1
    /\ listing' = 0
    /\ start_timestamp' = 0
    /\ end_timestamp' = 0
    /\ processed_ids' = new_processed_ids(processed_ids)
    /\ out' = [n \in Strategies |-> <<>>]
    /\ submission' = "None"
    /\ skipped_old' = FALSE
    /\ windows' = <<>>
    /\ started' = <<>>
    /\ returned' = <<>>
    /\ sawOld' = FALSE
    /\ lastHarvest' = NoHarvest
    /\ seen_again' = 0
    /\ all_data' = <<>>
    /\ df' = <<>>
    /\ df_transformed' = <<>>
    /\ raw_file' = <<>>
    /\ processed_file' = <<>>
    /\ UNCHANGED <<fetched, raised, harvests>>
    /\ UNCHANGED <<config, apps, b_pc, results, invoked, store, remote_log, error_log,
                   n_rows, reddit_open>>
    /\ UNCHANGED backup_vars

NextRuns ==
    \/ CallStrategy
    \/ \E id \in SubmissionIds : Yield(id)
    \/ EndListing
    \/ Raise
    \/ ReturnStrategy
    \/ Merge
    \/ MergeEmpty
    \/ MainAgain

RunsSpec == InitRuns /\ [][NextRuns]_vars

-----------------------------------------------------------------------------
(* s3_backup.backup_platform_data, process_directory and upload_file_to_s3 *)
(* on one platform directory.  s3_client.upload_file either succeeds,      *)
(* raises botocore's ClientError, or raises another exception (boto3's     *)
(* S3UploadFailedError, an OSError on the local file, a connection error). *)

data_types == <<"raw_data", "processed_data">>

FileNames == <<"reddit.csv", "reddit.xlsx", "reddit.db", "google_play.csv">>

\* A sub-directory that does not exist, or one holding the first n files.
SubDirs ==
    {[exists |-> FALSE, files |-> <<>>]}
        \cup {[exists |-> TRUE, files |-> SubSeq(FileNames, 1, n)] : n \in 0..MaxFiles}

PlatformDirs ==
    {[exists |-> FALSE, raw_data |-> [exists |-> FALSE, files |-> <<>>],
      processed_data |-> [exists |-> FALSE, files |-> <<>>]]}
        \cup {[exists |-> TRUE, raw_data |-> r, processed_data |-> p] :
                  r \in SubDirs, p \in SubDirs}

UploadOutcomes == {"ok", "ClientError", "OtherError"}

\* s3_key = f"{platform_name}/{data_type}/{relative_path}"
s3_key(data_type, file) == <<data_type, file>>

InitBackup ==
    /\ pc = "idle"
    /\ InitStrategies
    /\ df = <<>>
    /\ df_transformed = <<>>
    /\ InitFiles
    /\ NoBatch
    /\ k_pc = "start"
    /\ platform_dir \in PlatformDirs
    /\ data_type_i = 0
    /\ pending = <<>>
    /\ dir_processed = 0
    /\ files_processed = 0
    /\ attempted = {}
    /\ uploaded = {}
    /\ returned_count = <<>>

\* backup_platform_data, lines 111-118
BackupPlatform ==
    /\ k_pc = "start"
    /\ IF platform_dir.exists
       THEN k_pc' = "data_type" /\ data_type_i' = 1 /\ returned_count' = returned_count
       ELSE k_pc' = "done" /\ data_type_i' = data_type_i /\ returned_count' = <<0>>
    /\ UNCHANGED <<platform_dir, pending, dir_processed, files_processed, attempted,
                   uploaded>>
    /\ UNCHANGED <<collector_vars, batch_vars>>

\* backup_platform_data, lines 120-128: the next data type is entered
\* (process_directory starts its walk), skipped when its directory does not
\* exist, or the loop is over and the count is returned.
NextDataType ==
    /\ k_pc = "data_type"
    /\ IF data_type_i > Len(data_types)
       THEN /\ k_pc' = "done"
            /\ returned_count' = <<files_processed>>
            /\ UNCHANGED <<data_type_i, pending, dir_processed>>
       ELSE IF platform_dir[data_types[data_type_i]].exists
       THEN /\ k_pc' = "walk"
            /\ pending' = platform_dir[data_types[data_type_i]].files
            /\ dir_processed' = 0
            /\ UNCHANGED <<data_type_i, returned_count>>
       ELSE /\ k_pc' = "data_type"
            /\ data_type_i' = data_type_i + 1
            /\ UNCHANGED <<pending, dir_processed, returned_count>>
    /\ UNCHANGED <<platform_dir, files_processed, attempted, uploaded>>
    /\ UNCHANGED <<collector_vars, batch_vars>>

\* process_directory, lines 134-140, and upload_file_to_s3: the except of
\* line 103 catches ClientError only; any other exception leaves
\* upload_file_to_s3, process_directory and backup_platform_data.
Upload ==
    /\ k_pc = "walk"
    /\ pending # <<>>
    /\ attempted' = attempted \cup {s3_key(data_types[data_type_i], Head(pending))}
    /\ \E outcome \in UploadOutcomes :
           CASE outcome = "ok" ->
                    /\ uploaded' = uploaded \cup {s3_key(data_types[data_type_i], Head(pending))}
                    /\ dir_processed' = dir_processed + 1
                    /\ pending' = Tail(pending)
                    /\ k_pc' = "walk"
             [] outcome = "ClientError" ->
                    /\ pending' = Tail(pending)
                    /\ k_pc' = "walk"
                    /\ UNCHANGED <<uploaded, dir_processed>>
             [] OTHER ->
                    /\ k_pc' = "aborted"
                    /\ UNCHANGED <<uploaded, dir_processed, pending>>
    /\ UNCHANGED <<platform_dir, data_type_i, files_processed, returned_count>>
    /\ UNCHANGED <<collector_vars, batch_vars>>

\* process_directory returns (line 142) and backup_platform_data adds the
\* count (line 123).
LeaveDirectory ==
    /\ k_pc = "walk"
    /\ pending = <<>>
    /\ files_processed' = files_processed + dir_processed
    /\ dir_processed' = 0
    /\ data_type_i' = data_type_i + 1
    /\ k_pc' = "data_type"
    /\ UNCHANGED <<platform_dir, pending, attempted, uploaded, returned_count>>
    /\ UNCHANGED <<collector_vars, batch_vars>>

NextBackup == BackupPlatform \/ NextDataType \/ Upload \/ LeaveDirectory

BackupSpec == InitBackup /\ [][NextBackup]_vars

-----------------------------------------------------------------------------
(* Properties *)

\* Every record the strategies have emitted so far.
Emitted == UNION {{out[n][i] : i \in DOMAIN out[n]} : n \in Strategies}

\* The comment objects of the universe, each with its submission.
RemoteReplies ==
    UNION {{[c |-> s.comments[i], parent |-> s] : i \in DOMAIN s.comments} : s \in Submissions}

\* The order of the strategies the specification fixes.
FixedOrder == <<"monthly", "new", "hot", "top", "controversial", "search", "flair">>

IsPrefix(a, b) == Len(a) <= Len(b) /\ SubSeq(b, 1, Len(a)) = a

\* What of a submission's reply tree is materialized once expansion was tried.
Materialized(s) ==
    IF s.tree = "ok" THEN s.comments ELSE SubSeq(s.comments, 1, s.loaded)

\* The id of the record a row of the normalized output was made from: the
\* id of the row of the raw snapshot that carries the same row label.
OriginId(row) == (CHOOSE r \in {df[i] : i \in DOMAIN df} : r.index = row.index).id

\* C1: when a run has finished, no two records of the normalized output (nor
\* of the raw snapshot it was made from) originate from the same record id.
C1_FinalOutputIdsUnique ==
    pc = "done" =>
        /\ \A i, j \in DOMAIN df : i # j => df[i].id # df[j].id
        /\ \A i, j \in DOMAIN df_transformed :
               i # j => OriginId(df_transformed[i]) # OriginId(df_transformed[j])

\* C1 witness: a run finished in which a strategy met a submission that was
\* already collected, and whose reply tree listed one reply twice.
C1_Witness ==
    /\ pc = "done"
    /\ seen_again > 0
    /\ Len(df_transformed) >= 3
    /\ \E i \in DOMAIN df : df[i].id = "c4"

\* C2: every emitted record has a body text of trimmed length at least 5,
\* and no submission or reply whose text trims to fewer than 5 characters is
\* ever accepted (its id never enters the index, no record carries it).
C2_MinTrimmedLength ==
    /\ \A r \in Emitted : Len(strip(r.complaint)) >= 5
    /\ \A s \in Submissions :
           Len(strip(full_text(s))) < 5 =>
               s.id \notin processed_ids /\ \A r \in Emitted : r.id # s.id
    /\ \A x \in RemoteReplies :
           (x.c.has_body /\ Len(strip(x.c.body)) < 5) =>
               x.c.id \notin processed_ids /\ \A r \in Emitted : r.id # x.c.id

\* C2 witness: the submission "Hi" was just received and skipped, and the
\* tree holding the replies "ok" and " ok  " was harvested without them.
C2_Witness ==
    /\ pc = "iter"
    /\ submission = "p2"
    /\ "p2" \notin processed_ids
    /\ "p1" \in processed_ids
    /\ "c4" \in processed_ids
    /\ "c1" \notin processed_ids
    /\ "c2" \notin processed_ids

\* C3 as stated: no emitted record comes from a remote object whose body (the
\* self-text of a post, the body of a reply) equals '[deleted]' or '[removed]'.
C3_Original ==
    \A r \in Emitted :
        /\ r.type = "post" =>
               ~(Sub(r.id).is_self /\ Sub(r.id).selftext \in Sentinels)
        /\ r.type = "comment" => r.complaint \notin Sentinels

\* C3 as amended: no reply whose body equals '[deleted]' or '[removed]' is ever
\* accepted, and no emitted record (post or comment) has a body text equal to
\* one of the two sentinels; a post whose self-text is a sentinel is emitted
\* with the text "<title> <sentinel>".
C3_Amended ==
    /\ \A r \in Emitted : r.complaint \notin Sentinels
    /\ \A x \in RemoteReplies :
           (x.c.has_body /\ x.c.body \in Sentinels) =>
               x.c.id \notin processed_ids /\ \A r \in Emitted : r.id # x.c.id
    /\ \A r \in Emitted :
           (r.type = "post" /\ Sub(r.id).is_self) =>
               r.complaint = Sub(r.id).title \o <<" ">> \o Sub(r.id).selftext

\* C3 witness: the post with self-text '[removed]' was accepted and its
\* reply '[removed]' was not, nor was the reply '[deleted]' of another post.
C3_Witness ==
    /\ "p3" \in processed_ids
    /\ "c6" \in processed_ids
    /\ "c5" \notin processed_ids
    /\ "p1" \in processed_ids
    /\ "c3" \notin processed_ids

\* C4: the windows of collect_monthly_paginated are contiguous and do not
\* overlap: the first starts at the cutoff, each has positive length and ends
\* where the next starts, and when the loop is over the last one ends at the
\* "now" the strategy took when it started.
C4_WindowsContiguous ==
    (name_of(strat) = "monthly" /\ pc \in {"iter", "ret"}) =>
        /\ Len(windows) >= 1
        /\ windows[1][1] = one_year_ago
        /\ \A i \in 1..Len(windows) : windows[i][1] < windows[i][2]
        /\ \A i \in 1..(Len(windows) - 1) : windows[i][2] = windows[i + 1][1]
        /\ pc = "ret" => windows[Len(windows)][2] = end_timestamp

\* C4 witness: the monthly strategy went through all its windows, with a
\* "now" later than main's.
C4_Witness ==
    /\ name_of(strat) = "monthly"
    /\ pc = "ret"
    /\ Len(windows) > 12
    /\ end_timestamp > RunStart

\* C5: once 'new' sorting has met a submission older than the cutoff, its
\* output never grows again, the index is not extended while it is still the
\* running strategy, and its listing is over.
C5_NewEarlyExit ==
    /\ [](sawOld /\ name_of(strat) = "new" => pc = "ret")
    /\ [][sawOld =>
            /\ out'["new"] = out["new"]
            /\ name_of(strat) = "new" => processed_ids' = processed_ids]_vars

\* C5 witness: 'new' accepted a submission, then met one older than the cutoff.
C5_Witness ==
    /\ sawOld
    /\ name_of(strat) = "new"
    /\ out["new"] # <<>>

\* C6: a step in which a strategy receives a submission whose id is in the
\* index changes neither any strategy's output nor the index, and does not
\* call process_comments.
C6_SeenIsNoOp ==
    [][(pc = "iter" /\ fetched' = fetched + 1 /\ submission' \in processed_ids) =>
            /\ out' = out
            /\ processed_ids' = processed_ids
            /\ harvests' = harvests]_vars

\* C6 witness: a strategy has just received, and skipped, a submission that
\* was collected before.
C6_Witness ==
    /\ pc = "iter"
    /\ seen_again > 0
    /\ submission \in processed_ids
    /\ harvests = 1
    /\ fetched = 2

\* C7: a call of process_comments raises nothing and returns the records of
\* the replies that were materialized (all of them when the expansion
\* succeeded, the part loaded before the failure otherwise), and the calling
\* strategy goes on with the same listing.
C7_HarvestNeverRaises ==
    [][harvests' # harvests =>
            /\ ~lastHarvest'.raised
            /\ lastHarvest'.data =
                   extract_all(Materialized(Sub(lastHarvest'.id)), Sub(lastHarvest'.id))
            /\ pc' = "iter"
            /\ strat' = strat
            /\ listing' = listing]_vars

\* C7 witness: the tree whose expansion fails part-way was harvested, a
\* record of the loaded part was returned, and the strategy is in its listing.
C7_Witness ==
    /\ lastHarvest.id = "p3"
    /\ Len(lastHarvest.data) = 1
    /\ pc = "iter"
    /\ fetched < MaxFetch

\* C8 as stated: an exception ends no more than the item or page it was raised
\* in, so when a strategy returns every one of its listings (time filters,
\* search terms, flairs, time windows) has been enumerated.
C8_Claim ==
    pc = "ret" =>
        IF name_of(strat) = "monthly"
        THEN start_timestamp >= end_timestamp
        ELSE listing >= NumListings(name_of(strat))

\* C9: an exception raised inside a strategy never reaches main: the step
\* leaves the strategy in its loop or about to return, with every output as
\* it was, main is never aborted, and the merge is reached only after all
\* seven strategies have returned.
C9_NoExceptionReachesMain ==
    /\ [](pc # "aborted")
    /\ [](pc \in {"merge", "done", "failed"} =>
              Len(returned) = 7 /\ \A n \in Strategies : \E i \in 1..7 : returned[i] = n)
    /\ [][raised' # raised => (pc' \in {"iter", "ret"} /\ out' = out)]_vars

\* C9 witness: a run finished although an exception was raised inside 'hot'
\* sorting after it had collected records.
C9_Witness ==
    /\ pc = "done"
    /\ raised > 0
    /\ out["hot"] # <<>>

\* C10: the strategies are called in the fixed order, each one only after
\* the one before it has returned, and the index changes only in a step of
\* the one strategy that is running.
C10_Sequential ==
    /\ [](/\ IsPrefix(started, FixedOrder)
          /\ IsPrefix(returned, started)
          /\ Len(started) - Len(returned) = (IF pc \in {"iter", "ret"} THEN 1 ELSE 0)
          /\ pc \in {"iter", "ret"} => started[Len(started)] = name_of(strat))
    /\ [][processed_ids' # processed_ids =>
            /\ pc = "iter"
            /\ out'[name_of(strat)] # out[name_of(strat)]
            /\ \A n \in Strategies \ {name_of(strat)} : out'[n] = out[n]]_vars

\* C10 witness: all seven strategies ran and the index was filled by two of them.
C10_Witness ==
    /\ pc = "merge"
    /\ started = FixedOrder
    /\ out["monthly"] # <<>>
    /\ out["flair"] # <<>>

\* C11: the raw snapshot process_dataframe returns, and the raw file written
\* from it, are ordered by creation timestamp descending: of any two adjacent
\* records the earlier one's timestamp is greater than or equal to the later
\* one's.
C11_RawSnapshotNewestFirst ==
    /\ \A i \in 1..(Len(df) - 1) : df[i].timestamp_dt >= df[i + 1].timestamp_dt
    /\ \A i \in 1..(Len(raw_file) - 1) :
           raw_file[i].timestamp_dt >= raw_file[i + 1].timestamp_dt

\* C11 witness: a run finished whose concatenated outputs were not newest
\* first (a post before its later replies, an older post after them), and
\* the snapshot holds records of at least three different timestamps.
C11_Witness ==
    /\ pc = "done"
    /\ Len(all_data) >= 4
    /\ all_data[1].timestamp_dt < all_data[2].timestamp_dt
    /\ all_data[Len(all_data)].timestamp_dt < all_data[1].timestamp_dt
    /\ Cardinality({df[i].timestamp_dt : i \in DOMAIN df}) >= 3
    /\ Len(df) = Len(all_data)

\* The position in the raw snapshot of the row carrying row label l.
RawPos(l) == CHOOSE k \in DOMAIN df : df[k].index = l

\* C12: the normalized output is an order-preserving subsequence of the raw
\* snapshot: any two rows of it stand in the order their rows had in the raw
\* snapshot, every row of it comes from a row of the snapshot, and a row of
\* the snapshot is missing from it only if its text or timestamp is null.
C12_OrderPreservingSubsequence ==
    pc \in {"transformed", "loaded", "again"} =>
        /\ \A i \in DOMAIN df_transformed :
               \E k \in DOMAIN df : df[k].index = df_transformed[i].index
        /\ \A i, j \in DOMAIN df_transformed :
               i < j => RawPos(df_transformed[i].index) < RawPos(df_transformed[j].index)
        /\ \A k \in DOMAIN df :
               (\A i \in DOMAIN df_transformed : df_transformed[i].index # df[k].index)
                   => df[k].nulls \cap {"complaint", "timestamp_dt"} # {}

\* C12 witness: of a raw snapshot of three rows the middle one (null text)
\* was removed and the two others survive.
C12_Witness ==
    /\ pc = "transformed"
    /\ Len(df) = 3
    /\ "complaint" \in df[2].nulls
    /\ Len(df_transformed) = 2
    /\ df_transformed[1].index = df[1].index
    /\ df_transformed[2].index = df[3].index

\* The rows of the raw snapshot whose text and timestamp are both present.
CompleteRows == {k \in DOMAIN df : df[k].nulls \cap {"complaint", "timestamp_dt"} = {}}

\* C13: no record of the normalized output, and no record of the persisted
\* processed set, has a null review text or a null review timestamp; what is
\* persisted is the normalized output, which holds one record for each row
\* of the raw snapshot that has both a text and a timestamp and none for
\* the others.
C13_PersistedNonNull ==
    /\ \A i \in DOMAIN df_transformed :
           df_transformed[i].nulls \cap {"review", "review_datetime"} = {}
    /\ \A i \in DOMAIN processed_file :
           processed_file[i].nulls \cap {"review", "review_datetime"} = {}
    /\ pc \in {"loaded", "again"} =>
           /\ processed_file = to_csv(df_transformed)
           /\ Len(processed_file) = Cardinality(CompleteRows)
           /\ \A i \in DOMAIN df_transformed : RawPos(df_transformed[i].index) \in CompleteRows

\* C13 witness: a raw snapshot with a row of null text and a row of null
\* timestamp was normalized and persisted, and one record was written.
C13_Witness ==
    /\ pc = "loaded"
    /\ Len(df) = 3
    /\ \E k \in DOMAIN df : df[k].nulls \cap {"complaint", "timestamp_dt"} = {"complaint"}
    /\ \E k \in DOMAIN df : df[k].nulls \cap {"complaint", "timestamp_dt"} = {"timestamp_dt"}
    /\ Len(processed_file) = 1

\* t is text r with every letter A-Z replaced by its lowercase letter.
IsLowercaseOf(t, r) ==
    /\ Len(t) = Len(r)
    /\ \A k \in 1..Len(r) :
           IF \E u \in DOMAIN UpperCase : UpperCase[u] = r[k]
           THEN \E u \in DOMAIN UpperCase : UpperCase[u] = r[k] /\ t[k] = LowerCase[u]
           ELSE t[k] = r[k]

HasUppercase(t) == \E k \in 1..Len(t) : \E u \in DOMAIN UpperCase : UpperCase[u] = t[k]

\* C14: every review text of the normalized output, and of the processed file
\* written from it, is the lowercase form of the body text of the raw row it
\* was made from and holds no character A-Z.
C14_ReviewLowercased ==
    pc = "done" =>
        /\ Len(df_transformed) = Len(df)
        /\ \A i \in DOMAIN df_transformed :
               /\ IsLowercaseOf(df_transformed[i].review, df[RawPos(df_transformed[i].index)].complaint)
               /\ ~HasUppercase(df_transformed[i].review)
               /\ processed_file[i].review = df_transformed[i].review

\* C14 witness: a run finished whose raw snapshot holds the reply 'Great TIP'
\* and a post with a capitalised title.
C14_Witness ==
    /\ pc = "done"
    /\ \E k \in DOMAIN df : df[k].complaint = T_GreatTip
    /\ \E k \in DOMAIN df : df[k].type = "post" /\ HasUppercase(df[k].complaint)
    /\ \E i \in DOMAIN df_transformed :
           df_transformed[i].review = <<"g", "r", "e", "a", "t", " ", "t", "i", "p">>

RejectedReplies(s) ==
    {k \in DOMAIN s.comments :
        /\ s.comments[k].has_body
        /\ \/ Len(strip(s.comments[k].body)) < 5
           \/ s.comments[k].body \in Sentinels}

\* C16: for a submission whose reply tree holds N replies, what
\* process_comments returned are at most N records, exactly N minus the
\* replies rejected by the length/sentinel rule when the expansion succeeded,
\* all of them comment records whose parent id is the submission's id.
C16_RepliesAttachedToParent ==
    lastHarvest.id # "None" =>
        LET s == Sub(lastHarvest.id)
            N == Len(s.comments)
        IN  /\ Len(lastHarvest.data) <= N
            /\ s.tree = "ok" => Len(lastHarvest.data) = N - Cardinality(RejectedReplies(s))
            /\ \A i \in DOMAIN lastHarvest.data :
                   /\ lastHarvest.data[i].type = "comment"
                   /\ lastHarvest.data[i].parent_submission_id = s.id
                   /\ \E k \in 1..N : s.comments[k].id = lastHarvest.data[i].id

\* C16 witness: the tree of six replies, three of them rejected, was expanded
\* and three records came back.
C16_Witness ==
    /\ lastHarvest.id = "p1"
    /\ Len(Sub("p1").comments) = 6
    /\ Cardinality(RejectedReplies(Sub("p1"))) = 3
    /\ Len(lastHarvest.data) = 3

\* The positions of config['apps'] in configuration order.
ConfigOrder == [i \in 1..Len(apps) |-> i]

\* C17 as stated: a fatal error in one target's processing never aborts the
\* batch and is recorded as that target FAILED: process_app is called for the
\* apps in configuration order, no exception leaves main, every target whose
\* processing raised has the result False, and once the loop is over
\* process_app has been called exactly once for every configured app.
C17_Claim ==
    /\ b_pc # "crashed"
    /\ IsPrefix(invoked, ConfigOrder)
    /\ \A k \in DOMAIN error_log :
           error_log[k].app < app_i =>
               results[error_log[k].app] = <<apps[error_log[k].app].app_name, FALSE>>
    /\ b_pc \in {"backup", "aggregate", "end"} =>
           invoked = ConfigOrder /\ Len(results) = Len(apps)

\* The remote calls issued for target a before exception e was raised.
CallsBefore(e, a) == {j \in 1..e.at : remote_log[j][1] = a}

\* C18 as stated: a configuration error is raised at the start of a run,
\* before any remote call of that run is issued: when load_config raises for
\* a target, no remote call has been issued for that target, and a missing
\* config file ends the batch with no remote call at all.
C18_Claim ==
    /\ \A k \in DOMAIN error_log :
           error_log[k].kind = "ConfigError" =>
               CallsBefore(error_log[k], error_log[k].app) = {}
    /\ config = "no_file" => remote_log = <<>>

\* The directory of the app at position i of the configuration.
DirOf(i) == data_dir(apps[i].app_path)

\* C19: the step in which run_sanity_tests fails raises an AssertionError
\* after the target's raw and processed files were written, ends that
\* target's run with the result False and writes nothing; and no step taken
\* for one target, that one included, changes a file of another target's
\* directory.
C19_ValidationLeavesOthers ==
    /\ [][(b_pc = "reddit_sanity" /\ error_log' # error_log) =>
            /\ error_log'[Len(error_log')].kind = "AssertionError"
            /\ error_log'[Len(error_log')].app = app_i
            /\ store[DirOf(app_i)].reddit_raw # <<>>
            /\ store[DirOf(app_i)].reddit_processed # <<>>
            /\ store' = store
            /\ results' = Append(results, <<apps[app_i].app_name, FALSE>>)
            /\ app_i' = app_i + 1]_vars
    /\ [][\A i \in DOMAIN apps : i # app_i => store'[DirOf(i)] = store[DirOf(i)]]_vars

\* C19 witness: the first target was processed and persisted, then the
\* second target's ten persisted rows failed validation, and the first
\* target's files are as its own run left them.
C19_Witness ==
    /\ Len(results) = 2
    /\ results[1] = <<"app1", TRUE>>
    /\ results[2] = <<"app2", FALSE>>
    /\ \E k \in DOMAIN error_log :
           error_log[k].app = 2 /\ error_log[k].kind = "AssertionError"
    /\ store[DirOf(2)].reddit_processed = <<SanityMinRows>>
    /\ store[DirOf(2)].combined_reviews = <<>>
    /\ store[DirOf(1)].reddit_processed = <<SanityMinRows + 1>>
    /\ store[DirOf(1)].combined_reviews # <<>>

\* The s3 keys of the files of the platform directory.
AllKeys ==
    UNION {{s3_key(data_types[t], platform_dir[data_types[t]].files[n]) :
                n \in DOMAIN platform_dir[data_types[t]].files} :
           t \in {u \in DOMAIN data_types : platform_dir[data_types[u]].exists}}

\* C20 as stated: a failure to upload one object does not abort the transfer
\* of the remaining objects (the transfer is never abandoned, and when it is
\* over every object of the directory has been tried), and the count
\* returned is the number of objects whose upload succeeded.
C20_Claim ==
    /\ k_pc # "aborted"
    /\ k_pc = "done" /\ platform_dir.exists =>
           /\ attempted = AllKeys
           /\ returned_count = <<Cardinality(uploaded)>>

\* C21: the index is empty when main starts a target's run, holds nothing but
\* ids of records that run has emitted (it takes nothing over from the run
\* of another target), and within a run no step removes an id from it.
C21_IndexPerRun ==
    /\ [](/\ (pc = "call" /\ strat = 1) => processed_ids = {}
          /\ processed_ids \subseteq {r.id : r \in Emitted})
    /\ [][(app_i' = app_i) => processed_ids \subseteq processed_ids']_vars
    /\ [][(app_i' # app_i) => processed_ids' = {}]_vars

\* C21 witness: the second target's run accepted the submission the first
\* target's run had accepted (process_comments was called twice, and the
\* index holds one submission and its replies).
C21_Witness ==
    /\ app_i = 2
    /\ pc = "iter"
    /\ harvests = 2
    /\ processed_ids = {"p1", "c4", "c9"}

\* C22: no strategy accepts a submission created before the cutoff: every
\* post record of every strategy's output has a creation time at or after the
\* cutoff, and a post record the time-windowed strategy appends was created
\* within the bounds of the window it is searching at that moment.
C22_NoneBeforeCutoff ==
    /\ [](\A n \in Strategies : \A i \in DOMAIN out[n] :
              out[n][i].type = "post" =>
                  /\ out[n][i].timestamp >= one_year_ago
                  /\ Sub(out[n][i].id).created_utc = out[n][i].timestamp)
    /\ [][(out'["monthly"] # out["monthly"]) =>
            LET r == out'["monthly"][Len(out["monthly"]) + 1]
                w == windows[Len(windows)]
            IN  /\ r.type = "post"
                /\ windows' = windows
                /\ w[1] = start_timestamp
                /\ w[1] <= r.timestamp
                /\ r.timestamp <= w[2]]_vars

\* C22 witness: the time-windowed strategy accepted a submission in one of
\* its windows, and 'hot' sorting has met and skipped a submission older than
\* the cutoff.
C22_Witness ==
    /\ out["monthly"] # <<>>
    /\ name_of(strat) = "hot"
    /\ pc = "iter"
    /\ skipped_old
    /\ submission = "p4"
    /\ out["hot"] = <<>>

\* The strategies that skip a submission older than the cutoff and go on.
SkipStrategies == {"hot", "top", "controversial", "search", "flair"}

\* C23: in 'hot', 'top' and 'controversial' sorting and in the keyword and
\* flair searches, receiving a submission never ends the listing; one older
\* than the cutoff is skipped (no output and no index change), and after such
\* a skip a submission of the same listing that is in range, not in the index
\* and of at least 5 characters of text is still accepted.
C23_SkipAndContinue ==
    [][(pc = "iter" /\ name_of(strat) \in SkipStrategies /\ fetched' = fetched + 1) =>
            /\ pc' = "iter"
            /\ strat' = strat
            /\ listing' = listing
            /\ submission' \in SubmissionIds
            /\ LET s == Sub(submission')
                    data == out[name_of(strat)]
               IN  /\ s.created_utc < one_year_ago =>
                          out' = out /\ processed_ids' = processed_ids /\ skipped_old'
                   /\ ( /\ skipped_old
                        /\ s.created_utc >= one_year_ago
                        /\ s.id \notin processed_ids
                        /\ Len(strip(full_text(s))) >= 5 ) =>
                          /\ s.id \in processed_ids'
                          /\ Len(out'[name_of(strat)]) > Len(data)
                          /\ out'[name_of(strat)][Len(data) + 1].id = s.id
                          /\ out'[name_of(strat)][Len(data) + 1].type = "post"]_vars

\* C23 witness: 'hot' sorting skipped a submission older than the cutoff and
\* then, in the same listing, accepted the next one it received.
C23_Witness ==
    /\ name_of(strat) = "hot"
    /\ pc = "iter"
    /\ skipped_old
    /\ fetched = 2
    /\ submission = "p1"
    /\ out["hot"] # <<>>
    /\ out["hot"][1].id = "p1"
    /\ processed_ids = {"p1", "c4", "c9"}

\* Every reply record of list L stands directly after the record of its
\* submission or after another reply record of the same submission.
Grouped(L) ==
    \A i \in DOMAIN L :
        L[i].type = "comment" =>
            /\ i > 1
            /\ \/ L[i - 1].type = "post" /\ L[i - 1].id = L[i].parent_submission_id
               \/ /\ L[i - 1].type = "comment"
                  /\ L[i - 1].parent_submission_id = L[i].parent_submission_id

\* The outputs of the first k strategies of the fixed order, one after the other.
RECURSIVE Concatenated(_)
Concatenated(k) == IF k = 0 THEN <<>> ELSE Concatenated(k - 1) \o out[FixedOrder[k]]

\* The records of list L that carry one of the ids, in their order in L.
Restricted(L, ids) == SelectSeq(L, LAMBDA r : r.id \in ids)

\* C24: in every strategy's output and in main's concatenation the reply
\* records of a submission stand together directly after the submission's
\* record (so before the record of the next accepted submission), and the
\* concatenation is the outputs in the order of the strategies, each in the
\* order it was emitted.
C24_RepliesFollowParent ==
    /\ \A n \in Strategies : Grouped(out[n])
    /\ Grouped(all_data)
    /\ pc \in {"done", "failed"} =>
           /\ all_data = Concatenated(7)
           /\ \A n \in Strategies :
                  Restricted(all_data, {out[n][i].id : i \in DOMAIN out[n]}) = out[n]

\* C24 witness: a run finished in which two strategies each accepted a
\* submission with replies, and the concatenation holds the first
\* submission, its reply, then the second submission and its two replies.
C24_Witness ==
    /\ pc = "done"
    /\ Len(out["monthly"]) = 2
    /\ Len(out["hot"]) = 3
    /\ Len(all_data) = 5
    /\ all_data[1].type = "post"
    /\ all_data[2].type = "comment"
    /\ all_data[3].type = "post"
    /\ all_data[4].parent_submission_id = all_data[3].id
    /\ all_data[5].parent_submission_id = all_data[3].id

\* No two records of list L carry the same id.
UniqueIds(L) == \A i, j \in DOMAIN L : i # j => L[i].id # L[j].id

\* C25: the strategies' outputs, put one after the other, never hold two
\* records of the same id, and so the frame process_dataframe builds from
\* the concatenation loses no row to drop_duplicates.
C25_DedupCompleteInStrategy ==
    /\ UniqueIds(Concatenated(7))
    /\ pc \in {"done", "failed"} => UniqueIds(all_data)
    /\ pc = "done" =>
           /\ drop_duplicates(DataFrame(all_data)) = DataFrame(all_data)
           /\ Len(df) = Len(all_data)

\* C25 witness: a run finished in which a later strategy met again the
\* submission an earlier one had accepted, and whose reply tree returned the
\* same reply twice; the concatenation holds the submission and its two
\* different replies once each.
C25_Witness ==
    /\ pc = "done"
    /\ seen_again = 1
    /\ lastHarvest.id = "p1"
    /\ Len(lastHarvest.data) = 3
    /\ lastHarvest.data[1].id = lastHarvest.data[2].id
    /\ Len(all_data) = 3

\* The ids of the records a step appends to the running strategy's output.
Appended ==
    LET n == name_of(strat)
    IN  IF n = "None" THEN {}
        ELSE {out'[n][k].id : k \in (Len(out[n]) + 1)..Len(out'[n])}

\* C26: between any two items the ids of the records emitted so far are
\* exactly the contents of the index; a step adds to the index the ids of the
\* records it appends and no other; and a submission in range whose text the
\* extractor rejects is neither emitted nor added to the index, nor counted
\* as already seen, so that it is examined again whenever it is received.
C26_IndexIsEmittedIds ==
    /\ [](processed_ids = {r.id : r \in Emitted})
    /\ [][processed_ids' = processed_ids \cup Appended]_vars
    /\ [][(/\ pc = "iter"
           /\ fetched' = fetched + 1
           /\ submission' \in SubmissionIds
           /\ Sub(submission').created_utc >= start_timestamp
           /\ Sub(submission').created_utc >= one_year_ago
           /\ Sub(submission').created_utc <= month_end(start_timestamp, end_timestamp)
                  \/ name_of(strat) # "monthly"
           /\ Len(strip(full_text(Sub(submission')))) < 5) =>
                /\ out' = out
                /\ processed_ids' = processed_ids
                /\ submission' \notin processed_ids'
                /\ seen_again' = seen_again
                /\ harvests' = harvests]_vars

\* C26 witness: one submission and its replies were emitted and are the
\* contents of the index, and 'hot' sorting has just received, and left
\* out of both, the submission whose text is too short.
C26_Witness ==
    /\ name_of(strat) = "hot"
    /\ pc = "iter"
    /\ submission = "p2"
    /\ fetched = 2
    /\ seen_again = 0
    /\ harvests = 1
    /\ processed_ids = {"p1", "c4", "c9"}
    /\ {r.id : r \in Emitted} = {"p1", "c4", "c9"}

\* The least n with n * d >= a, for a >= 0 and d > 0.
CeilDiv(a, d) == (a + d - 1) \div d

\* C27: collect_monthly_paginated terminates.  Each window has a positive
\* length of at most 30 days, each iteration starts its window later than
\* the one before (also after an iteration whose fetch raised), there are at
\* most ceil((now - cutoff) / 30 days) windows, no step changes the window
\* start except to increase it, and the strategy returns.
C27_MonthlyTerminates ==
    /\ [](\A i \in DOMAIN windows :
              /\ windows[i][2] - windows[i][1] > 0
              /\ windows[i][2] - windows[i][1] <= 30 * DaySeconds
              /\ i > 1 => windows[i][1] > windows[i - 1][1])
    /\ [](pc \in {"iter", "ret"} =>
              /\ Len(windows) <= CeilDiv(end_timestamp - one_year_ago, 30 * DaySeconds)
              /\ pc = "iter" => start_timestamp = windows[Len(windows)][1])
    /\ [][(pc = "iter" /\ pc' \in {"iter", "ret"}) =>
            \/ start_timestamp' = start_timestamp /\ windows' = windows
            \/ start_timestamp' > start_timestamp /\ Len(windows') <= Len(windows) + 1]_vars
    /\ <>(returned = <<"monthly">>)

\* C27 witness: the strategy has returned after thirteen windows, one of
\* whose fetches raised and one of which yielded submissions.
C27_Witness ==
    /\ pc = "ret"
    /\ name_of(strat) = "monthly"
    /\ Len(windows) = 13
    /\ windows[13][2] = end_timestamp
    /\ raised = 1
    /\ fetched = 2

\* C28: in reddit_etl.main validation comes after persistence.  Whenever
\* run_sanity_tests is reached the target's raw snapshot and processed set
\* have been written with the rows of this run; validation itself writes
\* nothing, so when it fails both files stay as written; and when the
\* strategies collected nothing, process_dataframe raises before any file of
\* the target was written.
C28_ValidationAfterPersistence ==
    /\ [](b_pc = "reddit_sanity" =>
              /\ store[DirOf(app_i)].reddit_raw = <<n_rows>>
              /\ store[DirOf(app_i)].reddit_processed = <<n_rows>>)
    /\ [][(b_pc = "reddit_sanity") =>
            /\ store' = store
            /\ ~run_sanity_tests(n_rows) =>
                   /\ Len(error_log') = Len(error_log) + 1
                   /\ error_log'[Len(error_log')].kind = "AssertionError"
                   /\ store'[DirOf(app_i)].reddit_raw = <<n_rows>>
                   /\ store'[DirOf(app_i)].reddit_processed = <<n_rows>>]_vars
    /\ [][(b_pc = "reddit_process" /\ n_rows = 0) =>
            /\ Len(error_log') = Len(error_log) + 1
            /\ error_log'[Len(error_log')].app = app_i
            /\ results' = Append(results, <<apps[app_i].app_name, FALSE>>)
            /\ store' = store
            /\ store[DirOf(app_i)].reddit_raw = <<>>
            /\ store[DirOf(app_i)].reddit_processed = <<>>]_vars

\* C28 witness: the first target's strategies collected nothing and none of
\* its discussion files exists; the second target's ten rows were written to
\* both files and then failed validation.
C28_Witness ==
    /\ Len(results) = 2
    /\ \E k \in DOMAIN error_log : error_log[k].app = 1 /\ error_log[k].kind = "KeyError"
    /\ store[DirOf(1)].reddit_raw = <<>>
    /\ store[DirOf(1)].reddit_processed = <<>>
    /\ store[DirOf(1)].app_store_processed # <<>>
    /\ \E k \in DOMAIN error_log : error_log[k].app = 2 /\ error_log[k].kind = "AssertionError"
    /\ store[DirOf(2)].reddit_raw = <<SanityMinRows>>
    /\ store[DirOf(2)].reddit_processed = <<SanityMinRows>>

\* The steps of reddit_etl.main that come after the client was created.
AfterClient ==
    {"reddit_collect", "reddit_process", "reddit_save_raw", "reddit_load", "reddit_sanity"}

\* An exception left reddit_etl.main of the app at position i after its
\* client had been created.
RaisedAfterClient(i) ==
    \E k \in DOMAIN error_log : error_log[k].app = i /\ error_log[k].step \in AfterClient

\* C29: the client reddit_etl.main creates is closed on the success path
\* only.  reddit.close() is reached exactly when processing, persistence and
\* the sanity tests returned without raising, and it closes the client of
\* that run; an exception raised after the client was created leaves the
\* client open, for as long as the batch runs.
C29_ClosedOnSuccessOnly ==
    /\ [](b_pc = "reddit_close" =>
              /\ app_i \in reddit_open
              /\ run_sanity_tests(n_rows)
              /\ store[DirOf(app_i)].reddit_raw = <<n_rows>>
              /\ store[DirOf(app_i)].reddit_processed = <<n_rows>>
              /\ \A k \in DOMAIN error_log : error_log[k].app # app_i)
    /\ [](\A i \in 1..Len(results) :
              /\ i \in reddit_open <=> RaisedAfterClient(i)
              /\ results[i][2] => i \notin reddit_open)
    /\ [][reddit_open' # reddit_open =>
            \/ b_pc = "reddit_config" /\ reddit_open' = reddit_open \cup {app_i}
            \/ b_pc = "reddit_close" /\ reddit_open' = reddit_open \ {app_i}]_vars
    /\ [][(b_pc \in AfterClient /\ error_log' # error_log) =>
            app_i \in reddit_open /\ reddit_open' = reddit_open]_vars
    /\ [][(b_pc = "reddit_sanity" /\ run_sanity_tests(n_rows)) => b_pc' = "reddit_close"]_vars
    /\ [][(b_pc = "reddit_close") => app_i \notin reddit_open']_vars

\* C29 witness: the batch is over; the first target's run failed its sanity
\* tests and its client is still open, the second target's run went through
\* and closed its client.
C29_Witness ==
    /\ b_pc = "end"
    /\ Len(results) = 2
    /\ RaisedAfterClient(1)
    /\ \E k \in DOMAIN error_log : error_log[k].app = 1 /\ error_log[k].step = "reddit_sanity"
    /\ results[2] = <<"app2", TRUE>>
    /\ reddit_open = {1}

\* The step of process_app (1 App Store, 2 Play Store, 3 discussion,
\* 4 combine) a position of the control, a platform and a file belong to.
StepOf(b) ==
    CASE b = "app_store"  -> 1
      [] b = "play_store" -> 2
      [] b = "combine"    -> 4
      [] OTHER            -> 3

PlatformStep(platform) ==
    CASE platform = "app_store"   -> 1
      [] platform = "google_play" -> 2
      [] OTHER                    -> 3

FileStep(file) ==
    CASE file \in {"app_store_raw", "app_store_processed"}     -> 1
      [] file \in {"google_play_raw", "google_play_processed"} -> 2
      [] file \in {"reddit_raw", "reddit_processed"}           -> 3
      [] OTHER                                                 -> 4

InProcessApp ==
    {"app_store", "play_store", "reddit_config", "reddit_collect", "reddit_process",
     "reddit_save_raw", "reddit_load", "reddit_sanity", "reddit_close", "combine"}

\* The remote calls issued for the app at position i, in the order issued.
CallsOf(i) == SelectSeq(remote_log, LAMBDA c : c[1] = i)

\* C30: process_app runs App Store ETL, Play Store ETL, discussion ETL and
\* combine in this order; the result it returns is False exactly when an
\* exception was raised in one of these steps, True after combine otherwise;
\* and after such an exception no later step of that app is run: no remote
\* call of the app is issued and no file of a later step is written.
C30_StepsInOrderFalseOnException ==
    /\ [](\A i \in DOMAIN apps :
              \A a, b \in DOMAIN CallsOf(i) :
                  a < b => PlatformStep(CallsOf(i)[a][2]) < PlatformStep(CallsOf(i)[b][2]))
    /\ [](\A i \in 1..Len(results) :
              /\ results[i][2] <=> ~(\E k \in DOMAIN error_log : error_log[k].app = i)
              /\ results[i][2] =>
                     CallsOf(i) = <<<<i, "app_store">>, <<i, "google_play">>, <<i, "reddit">>>>
              /\ \A k \in DOMAIN error_log :
                     error_log[k].app = i =>
                         /\ \A j \in DOMAIN remote_log :
                                remote_log[j][1] = i =>
                                    /\ j <= error_log[k].at
                                    /\ PlatformStep(remote_log[j][2]) <= StepOf(error_log[k].step)
                         /\ \A f \in DOMAIN NoFiles :
                                FileStep(f) > StepOf(error_log[k].step) =>
                                    store[DirOf(i)][f] = <<>>)
    /\ [][(b_pc = "process_app" /\ b_pc' # "crashed") => b_pc' = "app_store"]_vars
    /\ [][(b_pc \in InProcessApp /\ b_pc' \in InProcessApp /\ app_i' = app_i) =>
            /\ StepOf(b_pc') \in {StepOf(b_pc), StepOf(b_pc) + 1}
            /\ error_log' = error_log]_vars
    /\ [][(Len(results') # Len(results)) =>
            /\ results'[Len(results')][2] <=> (b_pc = "combine")
            /\ ~results'[Len(results')][2] <=> (Len(error_log') = Len(error_log) + 1)]_vars

\* C30 witness: the first target's App Store sanity assertion failed after
\* its raw file was written: it got False, no Play Store or discussion call
\* was issued for it and none of their files exists; the second target went
\* through the four steps and got True.
C30_Witness ==
    /\ results = <<<<"app1", FALSE>>, <<"app2", TRUE>>>>
    /\ error_log = <<[app |-> 1, kind |-> "AssertionError", step |-> "app_store", at |-> 1]>>
    /\ remote_log = <<<<1, "app_store">>, <<2, "app_store">>, <<2, "google_play">>,
                      <<2, "reddit">>>>
    /\ store[DirOf(1)].app_store_raw # <<>>
    /\ store[DirOf(1)].google_play_raw = <<>>
    /\ store[DirOf(1)].reddit_raw = <<>>
    /\ store[DirOf(2)].combined_reviews # <<>>

====
